---- MODULE Spec2Model ----
(***************************************************************************)
(* Model of fits_align.imgcat.ImgCat: the per-image catalog that owns a    *)
(* star list, an accumulated quad list and the escalation level            *)
(* ("quadlevel").                                                          *)
(*                                                                         *)
(* Lengths are fixed-point: star positions are whole pixels, while xlim,   *)
(* ylim and mindist are kept in thousandths of a pixel so that the 1%      *)
(* border and the division by 10.0 are exact.                              *)
(***************************************************************************)
EXTENDS Integers, Sequences, FiniteSets, TLC

\* ------------------------------------------------------------------ bounds
\* Largest number of quads one generator call returns in the model.
MaxBatch == 2
\* Largest number of makemorequads calls made on one catalog.
MaxCalls == 7
\* Largest number of makemorequads calls one thread makes (SpecConc).
MaxThreadCalls == 2

\* ------------------------------------------------------------------ inputs
StarIds == 1..5
\* Pixel positions of the detections, by catalog row.
XS == <<0, 400, 0, 100, 50>>
YS == <<0, 0, 400, 100, 300>>
\* Flux of each catalog row (unsorted, with ties).
FluxRow == <<1, 2, 2, 1, 3>>
\* Flag rows of the five-row catalogs: some saturated (4..7); none clean
\* but some saturated; none usable; one unusable.
FlagRows == { <<0, 5, 0, 5, 0>>,
              <<5, 8, 5, 8, 5>>,
              <<8, 8, 8, 8, 8>>,
              <<0, 3, 0, 8, 0>> }
\* Values of the n argument of makestarlist (200 is its default).
NVals == {4, 200}

MkStar(i, fl) == [id |-> i, x |-> XS[i], y |-> YS[i], flux |-> FluxRow[i], flag |-> fl]

\* The raw catalogs handed to the constructor: the empty one and one
\* five-row catalog per flag row.
Catalogs ==
  {<< >>} \cup { [i \in StarIds |-> MkStar(i, fr[i])] : fr \in FlagRows }

\* ------------------------------------------------------------------ helpers
Min(a, b) == IF a <= b THEN a ELSE b
Range(s) == { s[i] : i \in 1..Len(s) }
SetMin(S) == CHOOSE m \in S : \A e \in S : m <= e
SetMax(S) == CHOOSE m \in S : \A e \in S : m >= e

\* ------------------------------------------------------------------ star.py
\* Flag threshold readsexcat applies when the caller passes no maxflag.
DefaultMaxFlag == 7

\* star.readsexcat: the detections whose flag does not exceed maxflag, in
\* catalog order.
readsexcat(mycat, maxflag) ==
  SelectSeq(mycat, LAMBDA s : s.flag <= maxflag)

\* star.readsexcat signals EmptyCatalog when no usable detection is left.
EmptyCatalog(stars) == stars = << >>

RECURSIVE InsertByFlux(_, _)
\* Insert s behind every element whose flux is not smaller (stable).
InsertByFlux(sorted, s) ==
  IF sorted = << >> THEN <<s>>
  ELSE IF Head(sorted).flux >= s.flux
       THEN <<Head(sorted)>> \o InsertByFlux(Tail(sorted), s)
       ELSE <<s>> \o sorted

RECURSIVE sortstarlistbyflux(_)
\* star.sortstarlistbyflux: descending flux, ties in original order.
sortstarlistbyflux(stars) ==
  IF stars = << >> THEN << >>
  ELSE InsertByFlux(sortstarlistbyflux(SubSeq(stars, 1, Len(stars) - 1)),
                    stars[Len(stars)])

\* One axis of star.area, in thousandths of a pixel: the extent of the
\* values widened by borderpct percent of the span on each side; a zero
\* span is widened by half a pixel on each side.
AxisLimits(vals, borderpct) ==
  LET lo == SetMin(vals)
      hi == SetMax(vals)
      span == hi - lo
  IN IF span = 0
     THEN <<1000 * lo - 500, 1000 * hi + 500>>
     ELSE <<1000 * lo - 10 * borderpct * span, 1000 * hi + 10 * borderpct * span>>

\* star.area(stars, border): (xmin, xmax, ymin, ymax).
area(stars, borderpct) ==
  LET xl == AxisLimits({ stars[i].x : i \in 1..Len(stars) }, borderpct)
      yl == AxisLimits({ stars[i].y : i \in 1..Len(stars) }, borderpct)
  IN <<xl[1], xl[2], yl[1], yl[2]>>

\* ------------------------------------------------------------------ quad.py
\* A quad is identified by its four member stars.
MkQuad(S) == [stars |-> S]

FourSubsets(S) == { Q \in SUBSET S : Cardinality(Q) = 4 }

RECURSIVE SeqsUpTo(_, _)
SeqsUpTo(S, n) ==
  IF n = 0 THEN {<< >>}
  ELSE LET shorter == SeqsUpTo(S, n - 1)
       IN shorter \cup { Append(q, e) : q \in { r \in shorter : Len(r) = n - 1 }, e \in S }

\* quad.makequads1 / quad.makequads2: some sequence of quads over 4-star
\* groups of the star list (repeats allowed).
QuadBatches(stars) ==
  SeqsUpTo({ MkQuad(S) : S \in FourSubsets(Range(stars)) }, MaxBatch)

RECURSIVE removeduplicates(_)
\* quad.removeduplicates: one quad per member-star set, first seen kept.
removeduplicates(ql) ==
  IF ql = << >> THEN << >>
  ELSE LET front == removeduplicates(SubSeq(ql, 1, Len(ql) - 1))
           last == ql[Len(ql)]
       IN IF \E i \in 1..Len(front) : front[i].stars = last.stars
          THEN front
          ELSE Append(front, last)

\* ------------------------------------------------------------------ state
VARIABLES
  cat,        \* self.cat
  starlist,   \* self.starlist
  mindist,    \* self.mindist (thousandths of a pixel)
  xlim,       \* self.xlim
  ylim,       \* self.ylim
  quadlist,   \* self.quadlist
  quadlevel,  \* self.quadlevel
  ret,        \* what the last operation returned or raised
  skip,       \* the skipsaturated argument of the last operation, if any
  nmax,       \* the n argument of the last operation, 0 if it took none
  ncalls,     \* number of makemorequads calls so far
  genlog,     \* the parameter sets of the generator calls made so far
  lastd,      \* the d argument of the generator call of the last operation
  lastgen,    \* how many quads that generator call returned
  lastkept,   \* how many of them the operation added to quadlist
  th,         \* per thread: where it is inside makemorequads, and its locals
  trues,      \* number of makemorequads calls that returned True
  appended,   \* member-star sets of the quads some call has appended
  loop,       \* a caller that calls makemorequads until it returns False
  objs,       \* two ImgCat objects side by side: the fields of each
  heap,       \* the list objects that the quadlist fields of objs refer to
  solo        \* what each of the two objects holds when it is run alone

vars == <<cat, starlist, mindist, xlim, ylim, quadlist, quadlevel,
          ret, skip, nmax, ncalls, genlog, lastd, lastgen, lastkept, th, trues, appended,
          loop, objs, heap, solo>>

\* The last operation took no such argument / made no generator call.
NoArg == "-"

Threads == {1, 2}
\* A thread that is not inside makemorequads.
IdleThread == [pc |-> "idle", k |-> 0, stale |-> FALSE, batch |-> << >>,
               snap |-> << >>, tmp |-> 0, calls |-> 0]

\* No caller loop has started.
IdleLoop == [pc |-> "idle", start |-> 0, trues |-> 0]

\* ImgCat.__init__
Init ==
  /\ cat \in Catalogs
  /\ starlist = << >>
  /\ mindist = 0
  /\ xlim = <<0, 0>>
  /\ ylim = <<0, 0>>
  /\ quadlist = << >>
  /\ quadlevel = 0
  /\ ret = "init"
  /\ skip = NoArg
  /\ nmax = 0
  /\ ncalls = 0
  /\ genlog = << >>
  /\ lastd = NoArg
  /\ lastgen = 0
  /\ lastkept = 0
  /\ th = [t \in Threads |-> IdleThread]
  /\ trues = 0
  /\ appended = {}
  /\ loop = IdleLoop
  /\ objs = << >>
  /\ heap = << >>
  /\ solo = << >>

\* ------------------------------------------------------------ makestarlist
\* Lines 75-78: the flag threshold chosen from skipsaturated.
maxflagFor(skipsaturated) == IF skipsaturated THEN 3 ELSE 7

\* Line 79, the catalog read: readsexcat is called with mycat only, so the
\* threshold computed from skipsaturated never reaches it.
ReadStars(mycat, skipsaturated) == readsexcat(mycat, DefaultMaxFlag)

\* Line 79, ranking and truncation: sortstarlistbyflux(...)[:n].
TopN(stars, n) ==
  LET sorted == sortstarlistbyflux(stars)
  IN SubSeq(sorted, 1, Min(n, Len(sorted)))

\* Line 85.
MinDistUncapped(box) == Min(box[2] - box[1], box[4] - box[3]) \div 10
MinDistOf(box) == Min(Min(box[2] - box[1], box[4] - box[3]) \div 10, 30000)

StarListResetsQuads == quadlist' = << >> /\ quadlevel' = 0
\* Lines 73-85: makestarlist assigns neither self.quadlist nor
\* self.quadlevel.
StarListFrame == UNCHANGED <<quadlist, quadlevel>>

makestarlist(skipsaturated, n) ==
  LET stars == ReadStars(cat, skipsaturated)
      newlist == TopN(stars, n)
      box == area(newlist, 1)
  IN /\ skip' = (IF skipsaturated THEN "True" ELSE "False")
     /\ nmax' = n
     /\ lastd' = NoArg
     /\ lastgen' = 0
     /\ lastkept' = 0
     /\ IF EmptyCatalog(stars)
        THEN /\ ret' = "EmptyCatalog"
             /\ UNCHANGED <<starlist, xlim, ylim, mindist>>
        ELSE /\ ret' = "None"
             /\ starlist' = newlist
             /\ xlim' = <<box[1], box[2]>>
             /\ ylim' = <<box[3], box[4]>>
             /\ mindist' = MinDistOf(box)
     /\ StarListFrame
     /\ UNCHANGED <<cat, ncalls, genlog, th, trues, appended, loop, objs, heap, solo>>

\* ----------------------------------------------------------- makemorequads
\* Lines 109-110: the else branch calls no generator.
NoGenerator == [fn |-> "none", kw |-> {}]

LevelParamsRepeated(L) ==
  CASE L = 0 -> [fn |-> "makequads1", kw |-> {<<"n", 7>>}]
    [] L \in {1, 2} -> [fn |-> "makequads2", kw |-> {<<"f", 3>>, <<"n", 5>>}]
    [] L = 3 -> [fn |-> "makequads2", kw |-> {<<"f", 12>>, <<"n", 5>>}]
    [] L = 4 -> [fn |-> "makequads2", kw |-> {<<"f", 10>>, <<"n", 6>>, <<"s", 3>>}]
    [] OTHER -> NoGenerator
LevelParamsDenser(L) ==
  CASE L = 0 -> [fn |-> "makequads1", kw |-> {<<"n", 7>>}]
    [] L = 1 -> [fn |-> "makequads2", kw |-> {<<"f", 3>>, <<"n", 5>>}]
    [] L = 2 -> [fn |-> "makequads2", kw |-> {<<"f", 2>>, <<"n", 5>>}]
    [] L = 3 -> [fn |-> "makequads2", kw |-> {<<"f", 12>>, <<"n", 5>>}]
    [] L = 4 -> [fn |-> "makequads2", kw |-> {<<"f", 10>>, <<"n", 6>>, <<"s", 3>>}]
    [] OTHER -> NoGenerator
\* Lines 98-107: the generator and keyword arguments bound to each level.
LevelParams(L) ==
  CASE L = 0 -> [fn |-> "makequads1", kw |-> {<<"n", 7>>}]
    [] L = 1 -> [fn |-> "makequads2", kw |-> {<<"f", 3>>, <<"n", 5>>}]
    [] L = 2 -> [fn |-> "makequads2", kw |-> {<<"f", 6>>, <<"n", 5>>}]
    [] L = 3 -> [fn |-> "makequads2", kw |-> {<<"f", 12>>, <<"n", 5>>}]
    [] L = 4 -> [fn |-> "makequads2", kw |-> {<<"f", 10>>, <<"n", 6>>, <<"s", 3>>}]
    [] OTHER -> NoGenerator

HasLevelOffByOne(L) == L \in 0..5
\* Lines 98-110: the levels an if/elif branch exists for; any other level
\* takes the else branch and returns False.
HasLevelNeedsStars(L) == LevelParams(L) # NoGenerator /\ starlist # << >>
HasLevel(L) == LevelParams(L) # NoGenerator

DedupBatchOnly(ql, batch) == ql \o removeduplicates(batch)
PrependThenDedup(ql, batch) == removeduplicates(batch \o ql)
\* Lines 99-112: extend the list by the batch, then deduplicate all of it.
ExtendAndDedup(ql, batch) == removeduplicates(ql \o batch)

NextLevelSkips(L) == L + 2
NextLevelStuck(L) == L
\* Line 113.
NextLevel(L) == L + 1

DistArgDefault(md) == 50000
\* Lines 99-107: d=self.mindist.
DistArg(md) == md

MoreQuadsDropsAStar ==
  /\ starlist' = SubSeq(starlist, 1, Len(starlist) - 1)
  /\ UNCHANGED <<mindist, xlim, ylim>>
\* Lines 91-114: makemorequads reads self.starlist and self.mindist and
\* assigns neither, nor self.xlim and self.ylim.
MoreQuadsFrame == UNCHANGED <<starlist, mindist, xlim, ylim>>

\* Lines 91-114: one call of makemorequads, from entry to return.
MoreQuadsCall ==
  /\ skip' = NoArg
  /\ nmax' = 0
  /\ ncalls' = ncalls + 1
  /\ IF HasLevel(quadlevel)
     THEN \E batch \in QuadBatches(starlist) :
            /\ quadlist' = ExtendAndDedup(quadlist, batch)
            /\ quadlevel' = NextLevel(quadlevel)
            /\ genlog' = Append(genlog, LevelParams(quadlevel))
            /\ lastd' = DistArg(mindist)
            /\ lastgen' = Len(batch)
            /\ lastkept' = Len(quadlist') - Len(quadlist)
            /\ appended' = appended \cup { batch[i].stars : i \in 1..Len(batch) }
            /\ trues' = trues + 1
            /\ ret' = "True"
     ELSE /\ ret' = "False"
          /\ lastd' = NoArg
          /\ lastgen' = 0
          /\ lastkept' = 0
          /\ UNCHANGED <<quadlist, quadlevel, genlog, appended, trues>>
  /\ MoreQuadsFrame
  /\ UNCHANGED <<cat, th, objs, heap, solo>>

makemorequads ==
  /\ ncalls < MaxCalls
  /\ MoreQuadsCall
  /\ UNCHANGED loop

Next ==
  \/ \E sk \in BOOLEAN, n \in NVals : makestarlist(sk, n)
  \/ makemorequads

Spec == Init /\ [][Next]_vars

\* -------------------------------------------- a caller that escalates
\* After any sequence of operations, a caller runs
\*     while imgcat.makemorequads(): pass
\* on the catalog.  loop.start is quadlevel when the loop starts and
\* loop.trues counts the True results the loop has seen.
\* The catalogs of at most four usable stars, whose star lists have at most
\* one 4-star group.
InitSmall ==
  /\ Init
  /\ Len(ReadStars(cat, FALSE)) <= 4

LoopStart ==
  /\ loop.pc = "idle"
  /\ loop' = [pc |-> "run", start |-> quadlevel, trues |-> 0]
  /\ UNCHANGED <<cat, starlist, mindist, xlim, ylim, quadlist, quadlevel,
                 ret, skip, nmax, ncalls, genlog, lastd, lastgen, lastkept,
                 th, trues, appended, objs, heap, solo>>

\* One iteration: the call, then the test of what it returned.
LoopCall ==
  /\ loop.pc = "run"
  /\ MoreQuadsCall
  /\ loop' = IF ret' = "True" THEN [loop EXCEPT !.trues = @ + 1]
                              ELSE [loop EXCEPT !.pc = "done"]

NextLoop ==
  \/ loop.pc = "idle" /\ Next
  \/ LoopStart
  \/ LoopCall

\* Every call returns (the generators terminate), and the caller does
\* nothing else between two calls, so a running loop makes its next call.
SpecLoop == InitSmall /\ [][NextLoop]_vars /\ WF_vars(LoopCall)

\* ------------------------------------------ makemorequads, with failures
\* The generator or removeduplicates may raise; makemorequads has no
\* try/except, so the exception leaves the method where it was raised.

\* Lines 99-107: list.extend adds the batch to the list self.quadlist
\* refers to, in place.
ExtendInPlace(ql, batch) == ql \o batch

\* Lines 98-107: the generator raises while the argument of extend is
\* evaluated, before extend runs.
GeneratorRaises ==
  /\ ncalls < MaxCalls
  /\ HasLevel(quadlevel)
  /\ ncalls' = ncalls + 1
  /\ skip' = NoArg
  /\ nmax' = 0
  /\ genlog' = Append(genlog, LevelParams(quadlevel))
  /\ lastd' = DistArg(mindist)
  /\ lastgen' = 0
  /\ lastkept' = 0
  /\ ret' = "Raised"
  /\ MoreQuadsFrame
  /\ UNCHANGED <<cat, quadlist, quadlevel, appended, trues, th, loop, objs, heap, solo>>

\* Lines 98-112: the generator returns, extend runs, and removeduplicates
\* raises: lines 112 (the assignment) and 113 are not reached.
DedupRaises ==
  /\ ncalls < MaxCalls
  /\ HasLevel(quadlevel)
  /\ \E batch \in QuadBatches(starlist) :
       /\ quadlist' = ExtendInPlace(quadlist, batch)
       /\ lastgen' = Len(batch)
       /\ lastkept' = Len(batch)
       /\ appended' = appended \cup { batch[i].stars : i \in 1..Len(batch) }
  /\ ncalls' = ncalls + 1
  /\ skip' = NoArg
  /\ nmax' = 0
  /\ genlog' = Append(genlog, LevelParams(quadlevel))
  /\ lastd' = DistArg(mindist)
  /\ ret' = "Raised"
  /\ MoreQuadsFrame
  /\ UNCHANGED <<cat, quadlevel, trues, th, loop, objs, heap, solo>>

NextFail ==
  \/ Next
  \/ GeneratorRaises
  \/ DedupRaises

SpecFail == InitSmall /\ [][NextFail]_vars

\* ------------------------------------------------- two ImgCat objects
\* Two ImgCat objects in one process.  A quadlist field holds a reference
\* to a list object in heap, since list.extend changes the object, whoever
\* refers to it.  Star lists, levels and limits are held by value:
\* makestarlist and line 113 rebind them and nothing changes them in place.
Instances == {1, 2}

SharedList(i) == 1
\* Lines 54-59: each run of __init__ evaluates its own [] display, so the
\* i-th object constructed gets a list object of its own.
NewList(i) == i

\* Line 112: self.quadlist is rebound to the list removeduplicates
\* returns; only the i-th object refers to it.
DedupedList(i) == Cardinality(Instances) + i

\* The fields of an object as a reader sees them.
View(i) ==
  [starlist |-> objs[i].starlist, mindist |-> objs[i].mindist,
   xlim |-> objs[i].xlim, ylim |-> objs[i].ylim,
   quadlist |-> heap[objs[i].quadlist], quadlevel |-> objs[i].quadlevel]

\* What the one-object specifications hold, which the two-object one
\* leaves alone.
OneFrame == <<cat, starlist, mindist, xlim, ylim, quadlist, quadlevel,
              ret, skip, nmax, ncalls, genlog, lastd, lastgen, lastkept,
              th, trues, appended, loop>>

\* Both objects have been constructed, each on a catalog of at most four
\* usable stars.
InitTwo ==
  /\ \E c1 \in Catalogs, c2 \in Catalogs :
       /\ Len(ReadStars(c1, FALSE)) <= 4
       /\ Len(ReadStars(c2, FALSE)) <= 4
       /\ objs = [i \in Instances |->
                   [cat |-> IF i = 1 THEN c1 ELSE c2, starlist |-> << >>,
                    mindist |-> 0, xlim |-> <<0, 0>>, ylim |-> <<0, 0>>,
                    quadlist |-> NewList(i), quadlevel |-> 0]]
  /\ heap = [r \in 1..(2 * Cardinality(Instances)) |-> << >>]
  /\ solo = [i \in Instances |->
              [starlist |-> << >>, mindist |-> 0, xlim |-> <<0, 0>>,
               ylim |-> <<0, 0>>, quadlist |-> << >>, quadlevel |-> 0]]
  /\ cat = << >>
  /\ starlist = << >>
  /\ mindist = 0
  /\ xlim = <<0, 0>>
  /\ ylim = <<0, 0>>
  /\ quadlist = << >>
  /\ quadlevel = 0
  /\ ret = "init"
  /\ skip = NoArg
  /\ nmax = 0
  /\ ncalls = 0
  /\ genlog = << >>
  /\ lastd = NoArg
  /\ lastgen = 0
  /\ lastkept = 0
  /\ th = [t \in Threads |-> IdleThread]
  /\ trues = 0
  /\ appended = {}
  /\ loop = IdleLoop

\* Lines 73-85 on the i-th object.
makestarlistOn(i, skipsaturated, n) ==
  LET stars == ReadStars(objs[i].cat, skipsaturated)
      newlist == TopN(stars, n)
      box == area(newlist, 1)
  IN /\ IF EmptyCatalog(stars)
        THEN UNCHANGED <<objs, solo>>
        ELSE /\ objs' = [objs EXCEPT ![i].starlist = newlist,
                                      ![i].xlim = <<box[1], box[2]>>,
                                      ![i].ylim = <<box[3], box[4]>>,
                                      ![i].mindist = MinDistOf(box)]
             /\ solo' = [solo EXCEPT ![i].starlist = newlist,
                                      ![i].xlim = <<box[1], box[2]>>,
                                      ![i].ylim = <<box[3], box[4]>>,
                                      ![i].mindist = MinDistOf(box)]
     /\ UNCHANGED heap
     /\ UNCHANGED OneFrame

\* Lines 91-114 on the i-th object.
makemorequadsOn(i) ==
  /\ IF HasLevel(objs[i].quadlevel)
     THEN \E batch \in QuadBatches(objs[i].starlist) :
            LET r == objs[i].quadlist
                extended == [heap EXCEPT ![r] = ExtendInPlace(@, batch)]
            IN /\ heap' = [extended EXCEPT
                             ![DedupedList(i)] = removeduplicates(extended[r])]
               /\ objs' = [objs EXCEPT ![i].quadlist = DedupedList(i),
                                        ![i].quadlevel = NextLevel(@)]
               /\ solo' = [solo EXCEPT ![i].quadlist = ExtendAndDedup(@, batch),
                                        ![i].quadlevel = NextLevel(@)]
     ELSE UNCHANGED <<objs, heap, solo>>
  /\ UNCHANGED OneFrame

NextTwo ==
  \/ \E i \in Instances, sk \in BOOLEAN, n \in NVals : makestarlistOn(i, sk, n)
  \/ \E i \in Instances : makemorequadsOn(i)

SpecTwo == InitTwo /\ [][NextTwo]_vars

\* ------------------------------------------- makemorequads, two threads
\* The same method run by two threads on one ImgCat, one step per read or
\* write of self.quadlevel and self.quadlist.  The class takes no lock.

\* The catalog has been built (makestarlist has returned) before the
\* threads start, after zero or more escalation steps; the star lists are those of four stars, which have one
\* 4-star group, so that every interleaving is enumerated.
InitConc ==
  /\ cat \in Catalogs
  /\ \E n \in NVals :
       LET newlist == TopN(ReadStars(cat, FALSE), n)
           box == area(newlist, 1)
       IN /\ Len(newlist) = 4
          /\ starlist = newlist
          /\ xlim = <<box[1], box[2]>>
          /\ ylim = <<box[3], box[4]>>
          /\ mindist = MinDistOf(box)
  /\ \E L \in 0..5 :
       \* L escalation steps were made one after the other, and their
       \* generators found no quad.
       /\ quadlevel = L
       /\ ncalls = L
       /\ trues = L
       /\ genlog = [i \in 1..L |-> LevelParams(i - 1)]
  /\ quadlist = << >>
  /\ ret = "None"
  /\ skip = "False"
  /\ nmax = 0
  /\ lastd = NoArg
  /\ lastgen = 0
  /\ lastkept = 0
  /\ th = [t \in Threads |-> IdleThread]
  /\ appended = {}
  /\ loop = IdleLoop
  /\ objs = << >>
  /\ heap = << >>
  /\ solo = << >>

\* What no step of a running makemorequads call writes.
ConcFrame == <<cat, starlist, mindist, xlim, ylim, skip, nmax, lastgen, lastkept,
               loop, objs, heap, solo>>

\* Line 91: the thread enters makemorequads.
TCall(t) ==
  /\ th[t].pc = "idle"
  /\ th[t].calls < MaxThreadCalls
  /\ th' = [th EXCEPT ![t].pc = "test", ![t].k = 0, ![t].calls = @ + 1]
  /\ ncalls' = ncalls + 1
  /\ UNCHANGED <<quadlist, quadlevel, genlog, lastd, ret, trues, appended>>
  /\ UNCHANGED ConcFrame

\* Lines 98-106: one comparison of the if/elif chain reads self.quadlevel
\* and does not match.
TTestMiss(t) ==
  /\ th[t].pc = "test"
  /\ quadlevel # th[t].k
  /\ HasLevel(th[t].k + 1)
  /\ th' = [th EXCEPT ![t].k = @ + 1]
  /\ UNCHANGED <<quadlist, quadlevel, genlog, lastd, ret, trues, appended>>
  /\ UNCHANGED <<ncalls, ConcFrame>>

\* Lines 106-110: the last comparison does not match; return False.
TReturnFalse(t) ==
  /\ th[t].pc = "test"
  /\ quadlevel # th[t].k
  /\ ~HasLevel(th[t].k + 1)
  /\ th' = [th EXCEPT ![t].pc = "idle"]
  /\ ret' = "False"
  /\ lastd' = NoArg
  /\ UNCHANGED <<quadlist, quadlevel, genlog, trues, appended>>
  /\ UNCHANGED <<ncalls, ConcFrame>>

\* Lines 98-107: a comparison matches; the branch loads self.quadlist and
\* runs the generator bound to the level it compared with.
TGenerate(t) ==
  /\ th[t].pc = "test"
  /\ quadlevel = th[t].k
  /\ \E batch \in QuadBatches(starlist) :
       th' = [th EXCEPT ![t].pc = "extend", ![t].batch = batch, ![t].stale = FALSE]
  /\ genlog' = Append(genlog, LevelParams(th[t].k))
  /\ lastd' = DistArg(mindist)
  /\ UNCHANGED <<quadlist, quadlevel, ret, trues, appended>>
  /\ UNCHANGED <<ncalls, ConcFrame>>

\* Lines 99-107: list.extend on the list object loaded before the
\* generator ran; if self.quadlist was rebound meanwhile, that object is
\* no longer the catalog's list.
TExtend(t) ==
  /\ th[t].pc = "extend"
  /\ quadlist' = IF th[t].stale THEN quadlist ELSE quadlist \o th[t].batch
  /\ appended' = appended \cup { th[t].batch[i].stars : i \in 1..Len(th[t].batch) }
  /\ th' = [th EXCEPT ![t].pc = "dedup_read", ![t].batch = << >>, ![t].stale = FALSE]
  /\ UNCHANGED <<quadlevel, genlog, lastd, ret, trues>>
  /\ UNCHANGED <<ncalls, ConcFrame>>

\* Line 112, right-hand side: removeduplicates(self.quadlist).
TDedupRead(t) ==
  /\ th[t].pc = "dedup_read"
  /\ th' = [th EXCEPT ![t].pc = "dedup_write", ![t].snap = removeduplicates(quadlist)]
  /\ UNCHANGED <<quadlist, quadlevel, genlog, lastd, ret, trues, appended>>
  /\ UNCHANGED <<ncalls, ConcFrame>>

\* Line 112, assignment: self.quadlist is rebound to the new list.
TDedupWrite(t) ==
  /\ th[t].pc = "dedup_write"
  /\ quadlist' = th[t].snap
  /\ th' = [u \in Threads |->
              IF u = t THEN [th[u] EXCEPT !.pc = "inc_read", !.snap = << >>]
              ELSE IF th[u].pc = "extend" THEN [th[u] EXCEPT !.stale = TRUE]
              ELSE th[u]]
  /\ UNCHANGED <<quadlevel, genlog, lastd, ret, trues, appended>>
  /\ UNCHANGED <<ncalls, ConcFrame>>

\* Line 113, the read of self.quadlevel += 1.
TIncRead(t) ==
  /\ th[t].pc = "inc_read"
  /\ th' = [th EXCEPT ![t].pc = "inc_write", ![t].tmp = quadlevel]
  /\ UNCHANGED <<quadlist, quadlevel, genlog, lastd, ret, trues, appended>>
  /\ UNCHANGED <<ncalls, ConcFrame>>

\* Lines 113-114: the write of self.quadlevel += 1, then return True.
TIncWrite(t) ==
  /\ th[t].pc = "inc_write"
  /\ quadlevel' = NextLevel(th[t].tmp)
  /\ th' = [th EXCEPT ![t].pc = "idle", ![t].tmp = 0, ![t].k = 0]
  /\ ret' = "True"
  /\ trues' = trues + 1
  /\ UNCHANGED <<quadlist, genlog, lastd, appended>>
  /\ UNCHANGED <<ncalls, ConcFrame>>

NextConc ==
  \E t \in Threads :
    \/ TCall(t)
    \/ TTestMiss(t)
    \/ TReturnFalse(t)
    \/ TGenerate(t)
    \/ TExtend(t)
    \/ TDedupRead(t)
    \/ TDedupWrite(t)
    \/ TIncRead(t)
    \/ TIncWrite(t)

SpecConc == InitConc /\ [][NextConc]_vars

\* ================================================================ claims
IsPrefix(a, b) == Len(a) <= Len(b) /\ SubSeq(b, 1, Len(a)) = a
NoTwoAlike(ql) ==
  \A i, j \in 1..Len(ql) : i # j => ql[i].stars # ql[j].stars
\* The step is a makemorequads call (every call counts itself).
IsMoreQuadsStep == ncalls' = ncalls + 1
\* The step is a makestarlist call.
IsStarListStep == skip' # NoArg

\* C1: after k makemorequads calls on a freshly constructed catalog,
\* quadlevel is min(k, 5).
C1_LevelIsMinOfCallsAndFive == quadlevel = Min(ncalls, 5)
C1_Witness == ncalls = 6 /\ quadlevel = 5 /\ ret = "False"

\* C2: a makemorequads call made at quadlevel 5 calls no generator, returns
\* False and leaves quadlevel and quadlist as they were; quadlevel 5 is
\* never left again.
C2_ExhaustedIsNoOp ==
  [][ quadlevel = 5 =>
        /\ quadlevel' = 5
        /\ IsMoreQuadsStep =>
             /\ ret' = "False"
             /\ quadlist' = quadlist
             /\ genlog' = genlog
             /\ lastd' = NoArg ]_vars
C2_Witness == ncalls = 7 /\ quadlevel = 5 /\ ret = "False" /\ Len(quadlist) >= 2

\* C3: between calls quadlist never holds two quads with the same four
\* member stars, and deduplicating it again removes nothing.
C3_NoDuplicateQuads ==
  /\ NoTwoAlike(quadlist)
  /\ removeduplicates(quadlist) = quadlist
\* The last call generated two quads, and both were duplicates: none was
\* added to the two quads accumulated before.
C3_Witness ==
  /\ ret = "True"
  /\ lastgen = 2
  /\ lastkept = 0
  /\ Len(quadlist) = 2

\* C4: quadlevel stays in 0..5 and never decreases; a makemorequads call
\* adds exactly 1 when it returns True and 0 when it returns False; no
\* other operation changes it.
C4_LevelMonotoneByOne ==
  /\ [](quadlevel \in 0..5)
  /\ [][ /\ quadlevel' >= quadlevel
         /\ IsMoreQuadsStep =>
              \/ ret' = "True" /\ quadlevel' = quadlevel + 1
              \/ ret' = "False" /\ quadlevel' = quadlevel
         /\ ~IsMoreQuadsStep => quadlevel' = quadlevel ]_vars
\* makestarlist was called after three escalation steps.
C4_Witness == quadlevel = 3 /\ ret = "None" /\ ncalls = 3

\* C5: a successful makemorequads call keeps every accumulated quad, in
\* the same order and ahead of the quads it adds; the quads it adds have
\* member-star sets no accumulated quad had, and there are no more of them
\* than the generator returned.
C5_AppendOnly ==
  [][ (IsMoreQuadsStep /\ ret' = "True") =>
        /\ IsPrefix(quadlist, quadlist')
        /\ Len(quadlist') <= Len(quadlist) + lastgen'
        /\ \A i \in (Len(quadlist) + 1)..Len(quadlist') :
             \A j \in 1..Len(quadlist) : quadlist'[i].stars # quadlist[j].stars ]_vars
\* The last call generated two quads, one a duplicate and one new, and
\* the new one sits behind the two quads accumulated before.
C5_Witness ==
  /\ ret = "True"
  /\ lastgen = 2
  /\ lastkept = 1
  /\ Len(quadlist) = 3

\* C6: after makestarlist(skipsaturated=True) no star of starlist has a
\* flag above 3, and after makestarlist(skipsaturated=False) none has a
\* flag above 7.
C6_FlagBound ==
  (skip # NoArg /\ ret = "None") =>
     \A i \in 1..Len(starlist) :
        starlist[i].flag <= maxflagFor(skip = "True")

\* C7: every quad of quadlist has exactly 4 distinct member stars, all of
\* them members of the current starlist.
C7_QuadsDrawnFromStarlist ==
  \A i \in 1..Len(quadlist) :
     /\ Cardinality(quadlist[i].stars) = 4
     /\ quadlist[i].stars \subseteq Range(starlist)

\* C8: when the catalog has no star that is usable under the threshold of
\* the call, makestarlist fails with EmptyCatalog and leaves starlist,
\* xlim, ylim and mindist as they were.
C8_EmptyCatalogFails ==
  [][ (IsStarListStep
       /\ \A i \in 1..Len(cat) : cat[i].flag > maxflagFor(skip' = "True")) =>
        /\ ret' = "EmptyCatalog"
        /\ UNCHANGED <<starlist, xlim, ylim, mindist>> ]_vars

AllIdle == \A t \in Threads : th[t].pc = "idle"
\* C9: once interleaved makemorequads calls have all returned, the
\* catalog is as after running them one after the other: quadlevel counts
\* the calls that returned True, no level's parameter set was run twice,
\* no appended quad is missing, and no two quads are alike.
C9_Serialized ==
  AllIdle =>
    /\ quadlevel = trues
    /\ \A i, j \in 1..Len(genlog) : i # j => genlog[i] # genlog[j]
    /\ \A S \in appended : \E i \in 1..Len(quadlist) : quadlist[i].stars = S
    /\ NoTwoAlike(quadlist)

\* The parameter sets of the five levels, as the claim lists them.
C10_Table ==
  << [fn |-> "makequads1", kw |-> {<<"n", 7>>}],
     [fn |-> "makequads2", kw |-> {<<"f", 3>>, <<"n", 5>>}],
     [fn |-> "makequads2", kw |-> {<<"f", 6>>, <<"n", 5>>}],
     [fn |-> "makequads2", kw |-> {<<"f", 12>>, <<"n", 5>>}],
     [fn |-> "makequads2", kw |-> {<<"f", 10>>, <<"n", 6>>, <<"s", 3>>}] >>
\* C10: a makemorequads call at level L in 0..4 makes exactly one generator
\* call, with the parameter set of level L and d = mindist; over a run the
\* generator calls are those of levels 0, 1, .. in that order, each once.
C10_OneGeneratorCallPerLevel ==
  /\ [](genlog = SubSeq(C10_Table, 1, quadlevel))
  /\ [][ (IsMoreQuadsStep /\ quadlevel \in 0..4) =>
           /\ genlog' = Append(genlog, C10_Table[quadlevel + 1])
           /\ lastd' = mindist ]_vars
C10_Witness ==
  /\ quadlevel = 5
  /\ ret = "True"
  /\ lastd = 30000
  /\ Len(genlog) = 5

\* The skip factor f of a makequads2 call.
SkipFactor(p) == CHOOSE v \in 0..100 : <<"f", v>> \in p.kw
\* The f of the generator call made at level L (the L+1st call of genlog).
FAtLevel(L) == SkipFactor(genlog[L + 1])

\* C11 as stated: the f used at each of levels 2, 3 and 4 is not smaller
\* than the f used at the level before.
C11_SkipFactorNeverShrinks ==
  \A L \in 2..4 : L + 1 <= Len(genlog) => FAtLevel(L) >= FAtLevel(L - 1)
\* C11 as amended: the f used at levels 2 and 3 is not smaller than the f
\* of the level before, and the f used at level 4 (10) is smaller than the
\* f of level 3 (12).
C11_SkipFactorGrowsUntilLevel3 ==
  /\ \A L \in 2..3 : L + 1 <= Len(genlog) => FAtLevel(L) >= FAtLevel(L - 1)
  /\ Len(genlog) >= 5 => (FAtLevel(4) = 10 /\ FAtLevel(3) = 12)
C11_Witness == Len(genlog) = 5 /\ quadlevel = 5 /\ ret = "None"

\* The detections of the catalog that are usable under the flag threshold
\* the last makestarlist call asked for.
UsableForCall == { cat[i] : i \in { j \in 1..Len(cat) : cat[j].flag <= maxflagFor(skip = "True") } }

\* C12: after makestarlist(n=N) the star list has at most N entries, is in
\* order of non-increasing flux, and holds the N highest-flux usable stars
\* of the catalog (all of them when fewer than N are usable).
C12_TopNUsableByFlux ==
  (skip # NoArg /\ ret = "None") =>
     /\ Len(starlist) <= nmax
     /\ \A i \in 1..(Len(starlist) - 1) : starlist[i].flux >= starlist[i + 1].flux
     /\ Len(starlist) = Min(nmax, Cardinality(UsableForCall))
     /\ Range(starlist) \subseteq UsableForCall
     /\ \A u \in UsableForCall \ Range(starlist) :
          \A i \in 1..Len(starlist) : u.flux <= starlist[i].flux

\* C13: no makemorequads call, at any level and whatever it returns,
\* changes starlist, mindist, xlim or ylim.
C13_MoreQuadsKeepsStarList ==
  [][ IsMoreQuadsStep =>
        /\ starlist' = starlist
        /\ mindist' = mindist
        /\ xlim' = xlim
        /\ ylim' = ylim ]_vars
\* A call on a five-star list has returned True and added two quads.
C13_Witness ==
  ret = "True" /\ quadlevel = 1 /\ Len(starlist) = 5 /\ lastkept = 2

\* C18: makestarlist leaves quadlist and quadlevel as they are, so calling
\* it after escalation steps neither clears the quads nor resets the level.
C18_StarListKeepsQuads ==
  [][ IsStarListStep => (quadlist' = quadlist /\ quadlevel' = quadlevel) ]_vars
\* makestarlist has returned on a catalog that holds two quads at level 2.
C18_Witness ==
  ret = "None" /\ quadlevel = 2 /\ Len(quadlist) = 2 /\ Len(starlist) = 4

\* C15: after makestarlist, mindist = min(min(xmax - xmin, ymax - ymin) / 10,
\* 30) for the bordered box the same call stored in xlim and ylim; hence
\* mindist is at most 30 pixels and at most a tenth of the shorter box side.
BoxWidth == xlim[2] - xlim[1]
BoxHeight == ylim[2] - ylim[1]
C15_MinDistFromStoredBox ==
  (skip # NoArg /\ ret = "None") =>
     /\ 10 * mindist = Min(Min(BoxWidth, BoxHeight), 10 * 30000)
     /\ mindist <= 30000
     /\ 10 * mindist <= BoxWidth
     /\ 10 * mindist <= BoxHeight
\* makestarlist has returned with a box whose shorter side is 51 pixels, so
\* mindist is 5.1 pixels, below the cap.
C15_Witness ==
  skip # NoArg /\ ret = "None" /\ BoxWidth = 51000 /\ mindist = 5100

\* C16: makemorequads returns True exactly when quadlevel is in 0..4 at the
\* time of the call and False otherwise, whatever the star list holds and
\* however many quads the step adds; a True step consumes the level even
\* when it adds no quad.
C16_ReturnDependsOnLevelOnly ==
  [][ IsMoreQuadsStep =>
        /\ ret' \in {"True", "False"}
        /\ ret' = "True" <=> quadlevel \in 0..4
        /\ ret' = "True" => quadlevel' = quadlevel + 1 ]_vars
\* All five levels have returned True on an empty star list, adding no quad.
C16_Witness ==
  /\ ret = "True" /\ starlist = << >> /\ quadlist = << >>
  /\ quadlevel = 5 /\ trues = 5 /\ lastgen = 0

\* C17: a caller that calls makemorequads until it returns False always
\* gets there, and has then seen exactly 5 - L True results, L being
\* quadlevel when the loop started: five from a fresh catalog, with the
\* False on the sixth call.
C17_LoopTerminates ==
  /\ (loop.pc = "run") ~> (loop.pc = "done")
  /\ [](loop.pc = "run" => (loop.trues <= 5 - loop.start /\ quadlevel = loop.start + loop.trues))
  /\ [](loop.pc = "done" => (ret = "False" /\ loop.trues = 5 - loop.start))
\* A loop started on a catalog at level 0 has ended after five True results.
C17_Witness ==
  loop.pc = "done" /\ loop.start = 0 /\ loop.trues = 5 /\ Len(quadlist) = 1

\* C19: when the generator or removeduplicates raises during a makemorequads
\* call at level L, the call leaves quadlevel at L and quadlist exactly as
\* it was before the call.
C19_FailedStepChangesNothing ==
  [][ (IsMoreQuadsStep /\ ret' = "Raised") =>
        (quadlevel' = quadlevel /\ quadlist' = quadlist) ]_vars

\* C14: ImgCat objects share no mutable state: whatever operations run on
\* the other object, and in whatever order, each object's starlist,
\* quadlist, quadlevel, mindist, xlim and ylim are what its own operations
\* alone give it.
C14_InstancesIndependent ==
  \A i \in Instances : View(i) = solo[i]
\* The first object is exhausted and holds a quad, while the second one, on
\* a four-star list, is at level 2 and holds none.
C14_Witness ==
  /\ View(1).quadlevel = 5 /\ Len(View(1).quadlist) = 1
  /\ View(2).quadlevel = 2 /\ View(2).quadlist = << >>
  /\ Len(View(2).starlist) = 4

====
